---- MODULE Spec2Model ----
(***************************************************************************)
(* A model of the JNI video decoder bridge                                 *)
(* src/main/c/frontend/decoders/frontend_decoders_FfmpegJniVideoDecoder.c: *)
(* initContext, decodeFrames, frames and freeContext, the manually owned   *)
(* struct context0 they share, and the codec-engine objects they open and  *)
(* close.  decodeFrames is modelled one codec-engine call per step; the    *)
(* other three entry points are one step each.                             *)
(*                                                                         *)
(* Spec      one caller thread, calls made one after the other             *)
(* FairSpec  Spec in which every codec-engine call returns                 *)
(* PackSpec  the packing loop on every content of pixelScratch             *)
(* ConcSpec  two threads in decodeFrames on one handle, no lock            *)
(***************************************************************************)
EXTENDS Integers, Sequences, FiniteSets, TLC

\* ------------------------------------------------------------- bounds
\* packets carried by one encoded buffer
MaxPackets == 2
\* type-0 initContext/decodeFrames calls of one caller (each pins the array
\* elements of its buffer)
MaxPinned == 2

Threads == {"t1", "t2"}
\* the threads of a caller that makes one call at a time
Callers == {"t1"}
\* the caller builds one context per clip; 0 is the null handle
Handles == {1}
\* 0 is the implemented tag, 1 stands for every other tag
ContextTypes == {0, 1}
Totals == -1..(MaxPackets + 1)
Offsets == {0, 1}
\* what a read past the end of pixelScratch may yield
GarbageBytes == {0, 255}

\* ------------------------------------------------------------- native codes
\* avformat_open_input, avformat_find_stream_info, avcodec_parameters_to_context,
\* avcodec_open2, av_read_frame, avcodec_send_packet, avcodec_receive_frame fail
\* with a negative code of the engine; the bridge only passes it on.
OpenInputErr == -11
StreamInfoErr == -12
NoDecoderErr == -1
ParamsErr == -13
Open2Err == -14
ReadErr == -15
SendErr == -16
RecvErr == -17

\* ------------------------------------------------------------- 64-bit values
\* TLC's integers are 32 bits wide: a 64-bit value is four 16-bit limbs, least
\* significant first.  int64_t nb_frames and uint64_t frame_rate share the bits.
Limb == 256 * 256
W64(a, b, c, d) == <<a, b, c, d>>
Zero64 == W64(0, 0, 0, 0)
\* (uint64_t) x > 0
U64Positive(x) == x # Zero64
\* (int64_t) x > 0
I64Positive(x) == x # Zero64 /\ x[4] < 32768
\* (jint) x of a uint64_t: the low 32 bits, two's complement
ToJint(x) == IF x[2] >= 32768 THEN (x[2] - Limb) * Limb + x[1] ELSE x[2] * Limb + x[1]
\* the int64_t with the value of a jint (sign extension)
FromJint(n) ==
    LET lo == n % Limb
        hi == ((n - lo) \div Limb) % Limb
        ext == IF n < 0 THEN Limb - 1 ELSE 0
    IN  W64(lo, hi, ext, ext)

\* ------------------------------------------------------------- inputs
NoData == [data |-> 0, fault |-> "none"]
Pkt(d, f) == [data |-> d, fault |-> f]
\* the i-th packet of a buffer carries payload i; it decodes, is refused by
\* avcodec_send_packet ("send") or yields no frame ("recv")
GoodSeq(n) == [i \in 1..n |-> Pkt(i, "none")]
\* no call reads past the first packet that fails, so a buffer has at most one,
\* in the last place
PacketSeqs ==
    {GoodSeq(n) : n \in 0..MaxPackets}
        \cup {Append(GoodSeq(n - 1), Pkt(n, f)) : n \in 1..MaxPackets, f \in {"send", "recv"}}

Video(open, info, codec, sws, nb, w, h, pkts) ==
    [open |-> open, info |-> info, codec |-> codec, sws |-> sws,
     nb_frames |-> nb, width |-> w, height |-> h, pkts |-> pkts]
NoVideo == Video(FALSE, FALSE, "none", FALSE, Zero64, 0, 0, <<>>)
Three64 == W64(3, 0, 0, 0)
\* declared frame counts: -1, 0, 3, 2^31, 2^32, 2^32 + 5
NbFrames == {W64(65535, 65535, 65535, 65535), Zero64, Three64,
             W64(0, 32768, 0, 0), W64(0, 0, 1, 0), W64(5, 0, 1, 0)}
Unopenable == Video(FALSE, FALSE, "ok", TRUE, Three64, 1, 1, <<>>)
NoStreamInfo == Video(TRUE, FALSE, "ok", TRUE, Three64, 1, 1, <<>>)
\* buffers on which one step of the probe or of the decoder set-up fails
FaultyVideos ==
    {Unopenable, NoStreamInfo,
     Video(TRUE, TRUE, "none", TRUE, Three64, 1, 1, <<>>),
     Video(TRUE, TRUE, "params", TRUE, Three64, 1, 1, <<>>),
     Video(TRUE, TRUE, "open", TRUE, Three64, 1, 1, <<>>),
     Video(TRUE, TRUE, "ok", FALSE, Three64, 1, 1, <<>>)}
CountVideos == {Video(TRUE, TRUE, "ok", TRUE, nb, 1, 1, <<>>) : nb \in NbFrames}
StreamVideos ==
    {Video(TRUE, TRUE, "ok", TRUE, Three64, 1, 1, ps) : ps \in PacketSeqs}
        \cup {Video(TRUE, TRUE, "ok", TRUE, Three64, 2, 1, GoodSeq(n)) : n \in 0..MaxPackets}
\* initContext reads the header of the buffer and no packet
InitVideos ==
    FaultyVideos \cup CountVideos \cup {Video(TRUE, TRUE, "ok", TRUE, Three64, 2, 1, <<>>)}
\* decodeFrames probes the buffer, reads its dimensions and its packets
DecodeVideos == {Unopenable, NoStreamInfo} \cup StreamVideos
\* a call with a tag other than 0 reads none of its other arguments
OtherVideos == {Unopenable, Video(TRUE, TRUE, "ok", TRUE, Three64, 1, 1, <<>>)}

Probeable(v) == v.open /\ v.info

\* ------------------------------------------------------------- pixels
\* the RGB24 bytes the scaler produces for pixel (row, col) of the frame decoded
\* from the packet with payload p
Rgb(p, row, col) ==
    LET b == 16 * p + 4 * row + col IN <<b % 256, (b + 64) % 256, (b + 128) % 256>>

\* a packing expression with the first and the third byte exchanged
PackPixelBgr(r, g, b) ==
    ((b * 65536) % 16777216) + ((g * 256) % 65536) + (r % 256)

\* the three-line packing expression of convert_to_java_frame; the masked fields
\* do not overlap, so the bitwise OR is a sum
PackPixel(r, g, b) ==
    ((r * 65536) % 16777216) + ((g * 256) % 65536) + (b % 256)

\* the loop of convert_to_java_frame over a buffer of bytes
PackPixels(bytes, n) ==
    [j \in 1..n |-> PackPixel(bytes[3 * j - 2], bytes[3 * j - 1], bytes[3 * j])]

Image(w, h, px) == [width |-> w, height |-> h, pixels |-> px]

\* ------------------------------------------------------------- state
VARIABLES
    ctx,     \* the context structures handed to the caller, by handle
    held,    \* the handles the caller holds and has not released
    live,    \* how many native objects of each kind are allocated and not released
    call,    \* per thread: the arguments, locals and outcome of its current or last call
    pc,      \* per thread: where its decodeFrames call stands, or "idle"
    ub,      \* the undefined operations the run has executed
    failed,  \* how many type-0 initContext calls of the run have failed
    overlapped  \* whether a decodeFrames call began while another was in progress

vars == <<ctx, held, live, call, pc, ub, failed, overlapped>>

\* the thread whose av_read_frame produced what the packet, the decoder, the
\* frame and pixelScratch hold
NoOwner == [pkt |-> "none", pending |-> "none", frm |-> "none", scratch |-> "none"]

\* struct context0 together with what its members point to
NoCtx ==
    [st |-> "none", frame |-> "none", packet |-> "none", buffer |-> "none",
     codec_context |-> "none", sws_context |-> "none", frame_rate |-> Zero64,
     size |-> 0, sw |-> 0, sh |-> 0, scratch |-> <<>>,
     pkt |-> NoData, frm |-> 0, pending |-> NoData, by |-> NoOwner]

NoLive ==
    [ctx |-> 0, codec |-> 0, sws |-> 0, buffer |-> 0, packet |-> 0, frame |-> 0,
     io |-> 0, fmt |-> 0, elems |-> 0, pktdata |-> 0, frmdata |-> 0]

\* the arguments, the locals and the outcome of one call of an entry point
NoCall ==
    [op |-> "none", thread |-> "none", type |-> 0, h |-> 0, buf |-> NoVideo,
     offset |-> 0, total0 |-> 0,
     total |-> 0, pos |-> 0, fmt |-> "none", io |-> "none", relFmt |-> 0, relIo |-> 0,
     touched |-> FALSE, width |-> 0, height |-> 0, frames |-> <<>>, error_code |-> 0,
     made |-> NoCtx, done |-> FALSE, exc |-> <<>>, null |-> FALSE, result |-> <<>>,
     value |-> 0, log |-> <<>>, fault |-> {}]

Err(msg, code) == [msg |-> msg, code |-> code]

\* the call of bundle s enters the codec-engine function named f
Enter(s, f) == [s EXCEPT !.c.log = Append(@, f)]

\* (*env)->ThrowNew followed by the return of NULL or 0
Throw(s, msg, code) ==
    [s EXCEPT !.c.exc = Append(@, Err(msg, code)), !.c.null = TRUE, !.c.done = TRUE]

\* a tag test that lets tag 1 through to the type-0 body
IsType0Loose(type) == type \in {0, 1}

\* the branch every entry point takes on the tag
IsType0(type) == type = 0

\* the tail of initContext, decodeFrames and frames for a tag that is not 0
Unsupported(s) == Throw(s, "Context is not supported", s.c.type)

\* ------------------------------------------------------------- format probe
\* avio_context_free(&(format_context->pb)): reads the pb member of the handle
AvioContextFree(s0) ==
    LET s == Enter(s0, "avio_context_free")
    IN  IF s.c.fmt # "live"
        THEN [s EXCEPT !.ub = @ \cup {"nullderef"}, !.c.touched = TRUE]
        ELSE IF s.c.io = "live"
             THEN [s EXCEPT !.c.io = "freed", !.c.relIo = @ + 1, !.lv.io = @ - 1]
             ELSE s

\* avformat_close_input(&format_context): nothing to do for a null handle
AvformatCloseInput(s0) ==
    LET s == Enter(s0, "avformat_close_input")
    IN  IF s.c.fmt = "live"
        THEN [s EXCEPT !.c.fmt = "freed", !.c.relFmt = @ + 1, !.lv.fmt = @ - 1]
        ELSE s

\* the two lines every exit of decodeFrames runs, and initContext after the
\* decoder set-up
ReleaseFormat(s) == AvformatCloseInput(AvioContextFree(s))

\* avformat_open_input on a handle with a caller-supplied pb: on failure the
\* engine frees the handle and nulls the caller's pointer, and leaves pb alone
AvformatOpenInput(s0) ==
    LET s == Enter(s0, "avformat_open_input")
    IN  IF s.c.buf.open
        THEN [s EXCEPT !.rc = 0]
        ELSE [s EXCEPT !.rc = OpenInputErr, !.c.fmt = "freed", !.c.relFmt = @ + 1,
                       !.lv.fmt = @ - 1]

AvformatFindStreamInfo(s) ==
    [Enter(s, "avformat_find_stream_info") EXCEPT
        !.rc = IF s.c.buf.info THEN 0 ELSE StreamInfoErr]

RetrieveVideoFormatContext(s) ==
    LET s1 == [s EXCEPT !.c.io = "live", !.lv.io = @ + 1,
                        !.c.fmt = "live", !.lv.fmt = @ + 1]
        s2 == AvformatOpenInput(s1)
    IN  IF s2.rc # 0 THEN s2 ELSE AvformatFindStreamInfo(s2)

\* GetArrayLength and GetByteArrayElements; no entry point releases the elements
GetElements(s) == [s EXCEPT !.lv.elems = @ + 1]

\* ------------------------------------------------------------- initContext
RetrieveCodecContext(s) ==
    IF s.c.buf.codec = "none"
    THEN [s EXCEPT !.rc = NoDecoderErr]
    ELSE LET s1 == [s EXCEPT !.x.codec_context = "live", !.lv.codec = @ + 1]
         IN  IF s.c.buf.codec = "params" THEN [s1 EXCEPT !.rc = ParamsErr]
             ELSE IF s.c.buf.codec = "open" THEN [s1 EXCEPT !.rc = Open2Err]
             ELSE [s1 EXCEPT !.rc = 0]

\* calloc(width * height * 3), av_packet_alloc, av_frame_alloc
AllocScratch(s) ==
    LET n == s.c.width * s.c.height * 3
    IN  [s EXCEPT !.x.buffer = "live", !.lv.buffer = @ + 1, !.x.size = n,
                  !.x.scratch = [i \in 1..n |-> 0],
                  !.x.packet = "live", !.lv.packet = @ + 1,
                  !.x.frame = "live", !.lv.frame = @ + 1]

\* the body of initContext for tag 0; value 1 stands for the address of the
\* structure, 0 for NULL
InitContext0(s) ==
    LET a == GetElements([s EXCEPT !.x = [NoCtx EXCEPT !.st = "live"], !.lv.ctx = @ + 1])
        b == RetrieveVideoFormatContext(a)
    IN  IF b.rc # 0 THEN Throw(b, "Demuxing failed", b.rc)
        ELSE
        LET d == [b EXCEPT !.x.frame_rate = b.c.buf.nb_frames,
                           !.c.width = b.c.buf.width, !.c.height = b.c.buf.height]
            e == ReleaseFormat(RetrieveCodecContext(d))
        IN  IF e.rc # 0 THEN Throw(e, "Context initialization failed", e.rc)
            ELSE IF ~e.c.buf.sws
            THEN Throw(e, "SWS context initialization failed", e.rc)
            ELSE LET f == [e EXCEPT !.x.sws_context = "live", !.lv.sws = @ + 1,
                                    !.x.sw = e.c.width, !.x.sh = e.c.height]
                 IN  [AllocScratch(f) EXCEPT !.c.done = TRUE, !.c.value = 1]

Bundle(c, x) == [c |-> c, x |-> x, lv |-> live, ub |-> ub, rc |-> 0]

FreeSlots == {h \in Handles : ctx[h].st = "none"}
NextSlot == CHOOSE h \in FreeSlots : \A g \in FreeSlots : h <= g

Running == \A t \in Threads : pc[t] # "crashed"
Idle(t) == Running /\ pc[t] = "idle"

initContext(t, buf, type) ==
    /\ Idle(t)
    /\ LET c0 == [NoCall EXCEPT !.op = "initContext", !.type = type, !.buf = buf]
       IN  IF IsType0(type)
           THEN LET s == InitContext0(Bundle(c0, NoCtx))
                IN  IF s.c.null
                    THEN /\ call' = [call EXCEPT ![t] = [s.c EXCEPT !.made = s.x]]
                         /\ UNCHANGED <<ctx, held>>
                         /\ live' = s.lv
                         /\ ub' = s.ub
                         /\ failed' = failed + 1
                    ELSE /\ FreeSlots # {}
                         /\ UNCHANGED failed
                         /\ call' = [call EXCEPT ![t] = [s.c EXCEPT !.value = NextSlot]]
                         /\ ctx' = [ctx EXCEPT ![NextSlot] = s.x]
                         /\ held' = held \cup {NextSlot}
                         /\ live' = s.lv
                         /\ ub' = s.ub
           ELSE /\ call' = [call EXCEPT ![t] = Unsupported(Bundle(c0, NoCtx)).c]
                /\ UNCHANGED <<ctx, held, live, ub, failed>>
    /\ UNCHANGED <<pc, overlapped>>

\* ------------------------------------------------------------- decodeFrames
\* one step of thread t ends in the state of bundle s, at position p
Commit(t, s, p) ==
    /\ call' = [call EXCEPT ![t] = s.c]
    /\ ctx' = [ctx EXCEPT ![s.c.h] = s.x]
    /\ live' = s.lv
    /\ ub' = s.ub
    /\ pc' = [pc EXCEPT ![t] = p]
    /\ overlapped' = (overlapped \/ (pc[t] = "idle" /\ \E u \in Threads \ {t} : pc[u] # "idle"))
    /\ UNCHANGED <<held, failed>>

\* a step that executed an undefined operation (a read through the null format
\* handle, a negative array size, an access behind pixelScratch) either goes on
\* or ends the process before the call raises or returns anything
Crash(t, s) ==
    /\ s.ub # ub
    /\ Commit(t, [s EXCEPT !.c.done = FALSE, !.c.exc = <<>>, !.c.null = FALSE,
                           !.c.fault = s.ub \ ub], "crashed")

\* jobject java_frames[total]: a negative size is undefined (a size of 0 is
\* what the compilers of the build accept as an empty array)
DeclareFrames(s) ==
    IF s.c.total < 0 THEN [s EXCEPT !.ub = @ \cup {"vla"}, !.c.frames = <<>>]
    ELSE [s EXCEPT !.c.frames = <<>>]

\* an entry that skips offset packets of the buffer before the loop
DecodeEntrySkipping(s) ==
    LET b == RetrieveVideoFormatContext(GetElements(s))
    IN  IF b.rc # 0
        THEN Throw([ReleaseFormat(b) EXCEPT !.c.error_code = b.rc], "Demuxing failed", b.rc)
        ELSE DeclareFrames([b EXCEPT !.c.error_code = 0,
                                     !.c.pos = b.c.offset,
                                     !.c.width = b.c.buf.width,
                                     !.c.height = b.c.buf.height])

\* decodeFrames for tag 0 up to the head of the loop
DecodeEntry(s) ==
    LET b == RetrieveVideoFormatContext(GetElements(s))
    IN  IF b.rc # 0
        THEN Throw([ReleaseFormat(b) EXCEPT !.c.error_code = b.rc], "Demuxing failed", b.rc)
        ELSE DeclareFrames([b EXCEPT !.c.error_code = 0,
                                     !.c.width = b.c.buf.width,
                                     !.c.height = b.c.buf.height])

\* the arguments of a decodeFrames call of thread t
DecodeCall(t, h, type, buf, offset, total) ==
    [NoCall EXCEPT !.op = "decodeFrames", !.thread = t, !.type = type, !.h = h,
                   !.buf = buf, !.offset = offset, !.total0 = total, !.total = total]

\* offset is an argument that the body never reads
decodeFrames(t, h, type, buf, offset, total) ==
    /\ Idle(t)
    /\ LET c0 == DecodeCall(t, h, type, buf, offset, total)
       IN  IF IsType0(type)
           THEN /\ h \in held
                /\ LET s == DecodeEntry(Bundle(c0, ctx[h]))
                   IN  \/ Commit(t, s, IF s.c.done THEN "idle" ELSE "loop")
                       \/ Crash(t, s)
           ELSE /\ h \in held \cup {0}
                /\ call' = [call EXCEPT ![t] = Unsupported(Bundle(c0, NoCtx)).c]
                /\ UNCHANGED <<ctx, held, live, ub, pc, failed, overlapped>>

\* a read that delivers the first packet of the buffer again on every call
AvReadFrameRewound(s0) ==
    LET s == Enter(s0, "av_read_frame")
    IN  IF s.c.pos < Len(s.c.buf.pkts)
        THEN [s EXCEPT !.rc = 0, !.x.pkt = s.c.buf.pkts[1], !.c.pos = @ + 1,
                       !.lv.pktdata = @ + 1, !.x.by.pkt = s.c.thread]
        ELSE [s EXCEPT !.rc = ReadErr, !.x.pkt = NoData, !.x.by.pkt = "none"]

\* av_read_frame(format_context, packet): the packet is filled without a look at
\* what it held; at the end of the stream it is left blank
AvReadFrame(s0) ==
    LET s == Enter(s0, "av_read_frame")
    IN  IF s.c.pos < Len(s.c.buf.pkts)
        THEN [s EXCEPT !.rc = 0, !.x.pkt = s.c.buf.pkts[s.c.pos + 1], !.c.pos = @ + 1,
                       !.lv.pktdata = @ + 1, !.x.by.pkt = s.c.thread]
        ELSE [s EXCEPT !.rc = ReadErr, !.x.pkt = NoData, !.x.by.pkt = "none"]

AvPacketUnref(s) ==
    IF s.x.pkt # NoData
    THEN [s EXCEPT !.x.pkt = NoData, !.lv.pktdata = @ - 1, !.x.by.pkt = "none"]
    ELSE s

AvFrameUnref(s) ==
    IF s.x.frm # 0
    THEN [s EXCEPT !.x.frm = 0, !.lv.frmdata = @ - 1, !.x.by.frm = "none"]
    ELSE s

\* avcodec_send_packet(context->codec_context, context->packet)
AvcodecSendPacket(s0) ==
    LET s == Enter(s0, "avcodec_send_packet")
    IN  IF s.x.pkt.fault = "send" THEN [s EXCEPT !.rc = SendErr]
        ELSE [s EXCEPT !.rc = 0, !.x.pending = s.x.pkt, !.x.by.pending = s.x.by.pkt]

\* avcodec_receive_frame(context->codec_context, context->frame): the frame is
\* unreferenced first, then filled from the submitted packet
AvcodecReceiveFrame(s) ==
    LET u == AvFrameUnref(Enter(s, "avcodec_receive_frame"))
    IN  IF u.x.pending = NoData \/ u.x.pending.fault = "recv"
        THEN [u EXCEPT !.rc = RecvErr, !.x.pending = NoData, !.x.by.pending = "none"]
        ELSE [u EXCEPT !.rc = 0, !.x.frm = u.x.pending.data, !.x.pending = NoData,
                       !.lv.frmdata = @ + 1,
                       !.x.by.frm = u.x.by.pending, !.x.by.pending = "none"]

\* the exit after a failed av_read_frame
ReadFailed(s) ==
    Throw(ReleaseFormat([s EXCEPT !.c.error_code = s.rc]),
          "AVPacket initialization failed", s.rc)

\* the exit after a failed avcodec_send_packet
SendFailed(s) == Throw(ReleaseFormat(s), "Decoding failed", s.rc)

\* the exit after a failed avcodec_receive_frame
ReceiveFailed(s) ==
    Throw(ReleaseFormat(AvPacketUnref([s EXCEPT !.c.error_code = s.rc])),
          "Decoding failed", s.rc)

\* the exit below the loop: the handle is released and the array is built
ReturnFrames(s) ==
    LET r == ReleaseFormat(s) IN [r EXCEPT !.c.result = r.c.frames, !.c.done = TRUE]

InLoop(t) == Running /\ pc[t] = "loop"
\* a loop condition that lets the body run once more when total is 0
LoopConditionInclusive(total) == total >= 0
\* while (total > 0)
LoopCondition(total) == total > 0
Cur(t) == Bundle(call[t], ctx[call[t].h])

\* while (total > 0): error_code = av_read_frame(...)
readFrame(t) ==
    /\ InLoop(t)
    /\ LoopCondition(call[t].total)
    /\ LET r == AvReadFrame(Cur(t))
       IN  IF r.rc # 0 THEN Commit(t, ReadFailed(r), "idle")
           ELSE Commit(t, [r EXCEPT !.c.error_code = 0], "send")

\* the loop condition fails
returnFrames(t) ==
    /\ InLoop(t)
    /\ ~LoopCondition(call[t].total)
    /\ Commit(t, ReturnFrames(Cur(t)), "idle")

sendPacket(t) ==
    /\ Running /\ pc[t] = "send"
    /\ LET r == AvcodecSendPacket(Cur(t))
       IN  IF r.rc # 0 THEN Commit(t, SendFailed(r), "idle")
           ELSE Commit(t, r, "recv")

receiveFrame(t) ==
    /\ Running /\ pc[t] = "recv"
    /\ LET r == AvcodecReceiveFrame(Cur(t))
       IN  IF r.rc # 0 THEN Commit(t, ReceiveFailed(r), "idle")
           ELSE Commit(t, r, "scale")

\* sws_scale(context, frame->data, frame->linesize, 0, height, &buf, {width * 3}):
\* the scaler was built for sw columns; it writes rows 0..height-1, each at the
\* stride the call passes
ScaleCells(s) ==
    {<<r, c, k>> \in (0..(s.c.height - 1)) \X (0..(s.x.sw - 1)) \X (0..2) : TRUE}
CellPos(s, cell) == cell[1] * s.c.width * 3 + cell[2] * 3 + cell[3] + 1
SwsScale(s0) ==
    LET s == Enter(s0, "sws_scale")
        cells == ScaleCells(s)
        at(i) == {cell \in cells : CellPos(s, cell) = i}
        last(i) == CHOOSE cell \in at(i) : \A o \in at(i) : o[1] <= cell[1]
        over == \E cell \in cells : CellPos(s, cell) > s.x.size
        out == [i \in 1..s.x.size |->
                   IF at(i) = {} THEN s.x.scratch[i]
                   ELSE Rgb(s.x.frm, last(i)[1], last(i)[2])[last(i)[3] + 1]]
    IN  [s EXCEPT !.x.scratch = out, !.x.by.scratch = s.x.by.frm,
                  !.ub = IF over THEN @ \cup {"oobwrite"} ELSE @]

scale(t) ==
    /\ Running /\ pc[t] = "scale"
    /\ LET r == SwsScale(Cur(t))
       IN  \/ Commit(t, r, "pack")
           \/ Crash(t, r)

\* the bytes the packing loop reads: width * height * 3 of them, whatever the
\* size of the buffer; g is what lies behind the buffer
ScratchBytes(s, g) ==
    [i \in 1..(s.c.width * s.c.height * 3) |->
        IF i <= s.x.size THEN s.x.scratch[i] ELSE g]

\* NewIntArray, the packing loop and create_java_frame
ConvertToJavaFrame(s, g) ==
    Image(s.c.width, s.c.height, PackPixels(ScratchBytes(s, g), s.c.width * s.c.height))

\* the rest of the iteration: the image is stored, total decremented and both
\* scratch entities unreferenced
Pack(s, g) ==
    LET over == s.c.width * s.c.height * 3 > s.x.size
        a == [s EXCEPT !.c.frames = Append(@, ConvertToJavaFrame(s, g)),
                       !.c.total = @ - 1,
                       !.ub = IF over THEN @ \cup {"oobread"} ELSE @]
    IN  AvPacketUnref(AvFrameUnref(a))

pack(t) ==
    /\ Running /\ pc[t] = "pack"
    /\ LET s == Cur(t)
           over == s.c.width * s.c.height * 3 > s.x.size
       IN  \E g \in (IF over THEN GarbageBytes ELSE {0}) :
               \/ Commit(t, Pack(s, g), "loop")
               \/ Crash(t, Pack(s, g))

\* ------------------------------------------------------------- frames
Frames0(s) ==
    IF U64Positive(s.x.frame_rate)
    THEN [s EXCEPT !.c.value = ToJint(s.x.frame_rate), !.c.done = TRUE]
    ELSE [Throw(s, "Unknown frame rate", 0) EXCEPT !.c.null = FALSE]

frames(t, h, type) ==
    /\ Idle(t)
    /\ LET c0 == [NoCall EXCEPT !.op = "frames", !.type = type, !.h = h]
       IN  IF IsType0(type)
           THEN /\ h \in held
                /\ call' = [call EXCEPT ![t] = Frames0(Bundle(c0, ctx[h])).c]
           ELSE /\ h \in held \cup {0}
                /\ call' = [call EXCEPT ![t] =
                               [Unsupported(Bundle(c0, NoCtx)).c EXCEPT !.null = FALSE]]
    /\ UNCHANGED <<ctx, held, live, ub, pc, failed, overlapped>>

\* ------------------------------------------------------------- freeContext
\* avcodec_free_context, av_frame_free, av_packet_free (both drop what the entity
\* still references), sws_freeContext, free(buffer), free(context)
FreeContext0(s) ==
    LET u == AvPacketUnref(AvFrameUnref(s))
    IN  [u EXCEPT !.x.codec_context = "freed", !.lv.codec = @ - 1,
                  !.x.pending = NoData, !.x.by.pending = "none",
                  !.x.frame = "freed", !.lv.frame = @ - 1,
                  !.x.packet = "freed", !.lv.packet = @ - 1,
                  !.x.sws_context = "freed", !.lv.sws = @ - 1,
                  !.x.buffer = "freed", !.lv.buffer = @ - 1,
                  !.x.st = "freed", !.lv.ctx = @ - 1,
                  !.c.done = TRUE]

freeContext(t, h, type) ==
    /\ Idle(t)
    /\ LET c0 == [NoCall EXCEPT !.op = "freeContext", !.type = type, !.h = h]
       IN  IF IsType0(type)
           THEN /\ h \in held
                /\ LET s == FreeContext0(Bundle(c0, ctx[h]))
                   IN  /\ call' = [call EXCEPT ![t] = s.c]
                       /\ ctx' = [ctx EXCEPT ![h] = s.x]
                       /\ live' = s.lv
                       /\ held' = held \ {h}
                /\ UNCHANGED <<ub, pc, failed, overlapped>>
           ELSE /\ h \in held \cup {0}
                /\ call' = [call EXCEPT ![t] = [c0 EXCEPT !.done = TRUE]]
                /\ UNCHANGED <<ctx, held, live, ub, pc, failed, overlapped>>

\* ------------------------------------------------------------- specification
Init ==
    /\ ctx = [h \in Handles |-> NoCtx]
    /\ held = {}
    /\ live = NoLive
    /\ call = [t \in Threads |-> NoCall]
    /\ pc = [t \in Threads |-> "idle"]
    /\ ub = {}
    /\ failed = 0
    /\ overlapped = FALSE

\* the caller makes at most MaxPinned calls that pin the elements of a buffer
Next ==
    \E t \in Callers :
        \/ \E buf \in InitVideos : live.elems < MaxPinned /\ initContext(t, buf, 0)
        \/ \E buf \in OtherVideos, type \in ContextTypes \ {0} : initContext(t, buf, type)
        \/ \E h \in Handles, buf \in DecodeVideos, offset \in Offsets, total \in Totals :
               live.elems < MaxPinned /\ decodeFrames(t, h, 0, buf, offset, total)
        \/ \E h \in Handles \cup {0}, type \in ContextTypes \ {0}, buf \in OtherVideos,
              total \in {0, 1} :
               decodeFrames(t, h, type, buf, 0, total)
        \/ readFrame(t)
        \/ sendPacket(t)
        \/ receiveFrame(t)
        \/ scale(t)
        \/ pack(t)
        \/ returnFrames(t)
        \/ \E h \in Handles \cup {0}, type \in ContextTypes : frames(t, h, type)
        \/ \E h \in Handles \cup {0}, type \in ContextTypes : freeContext(t, h, type)

Spec == Init /\ [][Next]_vars

\* every codec-engine call returns: a call that has begun takes its next step
DecodeSteps(t) ==
    \/ readFrame(t)
    \/ sendPacket(t)
    \/ receiveFrame(t)
    \/ scale(t)
    \/ pack(t)
    \/ returnFrames(t)

FairSpec == Spec /\ \A t \in Callers : WF_vars(DecodeSteps(t))

\* ------------------------------------------------------------- pixel packing
\* byte values the scaler may leave in pixelScratch: 0x12, 0x34, 0x56, 0xff
ScratchValues == {18, 52, 86, 255}
\* width and height of the streams whose frames are packed
FrameSizes == {<<1, 1>>, <<2, 1>>}

\* a decodeFrames call for one frame of a w x h stream, on a context built from
\* that stream, after sws_scale has returned
Scaled(w, h) ==
    LET v == Video(TRUE, TRUE, "ok", TRUE, Three64, w, h, GoodSeq(1))
        b0 == [c |-> [NoCall EXCEPT !.op = "initContext", !.buf = v], x |-> NoCtx,
               lv |-> NoLive, ub |-> {}, rc |-> 0]
        b1 == InitContext0(b0)
        c1 == DecodeCall("t1", 1, 0, v, 0, 1)
        b2 == DecodeEntry([b1 EXCEPT !.c = c1])
        b3 == SwsScale(AvcodecReceiveFrame(AvcodecSendPacket(AvReadFrame(b2))))
    IN  b3

\* the scaler may have left any bytes bs in pixelScratch
PackInit ==
    \E size \in FrameSizes :
        LET s == Scaled(size[1], size[2])
        IN  \E bs \in [1..(size[1] * size[2] * 3) -> ScratchValues] :
                /\ ctx = [h \in Handles |-> [s.x EXCEPT !.scratch = bs]]
                /\ held = Handles
                /\ live = s.lv
                /\ call = [t \in Threads |-> IF t = "t1" THEN s.c ELSE NoCall]
                /\ pc = [t \in Threads |-> IF t = "t1" THEN "pack" ELSE "idle"]
                /\ ub = {}
                /\ failed = 0
                /\ overlapped = FALSE

PackNext == \E t \in Threads : pack(t) \/ returnFrames(t)

PackSpec == PackInit /\ [][PackNext]_vars

\* ------------------------------------------------------------- two threads
\* clips of 1x1 frames whose packets all decode
ClipVideos ==
    {Video(TRUE, TRUE, "ok", TRUE, Three64, 1, 1, GoodSeq(n)) : n \in 1..MaxPackets}

\* one thread builds the context; then each thread calls decodeFrames once on
\* its handle with no lock between them, each codec-engine call being one step
ConcNext ==
    \E t \in Threads :
        \/ /\ t \in Callers /\ held = {}
           /\ \E buf \in ClipVideos : live.elems < 1 /\ initContext(t, buf, 0)
        \/ \E h \in Handles, buf \in ClipVideos, total \in 1..MaxPackets :
               call[t].op # "decodeFrames" /\ decodeFrames(t, h, 0, buf, 0, total)
        \/ readFrame(t)
        \/ sendPacket(t)
        \/ receiveFrame(t)
        \/ scale(t)
        \/ pack(t)
        \/ returnFrames(t)

ConcSpec == Init /\ [][ConcNext]_vars

\* ------------------------------------------------------------- properties
\* the last call of thread t is over: it returned, raised, or ended the process
Ended(t) == call[t].op # "none" /\ (call[t].done \/ pc[t] = "crashed")
Decoded(t) == call[t].op = "decodeFrames" /\ call[t].type = 0 /\ Ended(t)
AllDecodable(pkts, n) == \A i \in 1..n : i <= Len(pkts) => pkts[i].fault = "none"

\* the image of the frame decoded from payload p, at w x h
Conversion(p, w, h) ==
    Image(w, h, [j \in 1..(w * h) |->
                    LET px == Rgb(p, (j - 1) \div w, (j - 1) % w)
                    IN  PackPixel(px[1], px[2], px[3])])

DemuxFailure == Err("AVPacket initialization failed", ReadErr)
UnsupportedContext(type) == Err("Context is not supported", type)
UnknownFrameRate == Err("Unknown frame rate", 0)

\* C1: on a live type-0 context, decodeFrames with total = N >= 0 on a probeable
\* buffer that delivers at least N packets (each of them decodable) returns
\* exactly N images and raises nothing; image i is the conversion of the frame
\* of the i-th packet at the probed width and height.
C1_DecodeReturnsNImages ==
    \A t \in Threads :
        LET c == call[t] IN
        (/\ Decoded(t)
         /\ Probeable(c.buf)
         /\ c.total0 >= 0
         /\ c.total0 <= Len(c.buf.pkts)
         /\ AllDecodable(c.buf.pkts, c.total0))
        => /\ c.done
           /\ c.exc = <<>>
           /\ ~c.null
           /\ Len(c.result) = c.total0
           /\ \A i \in 1..c.total0 :
                  c.result[i] = Conversion(c.buf.pkts[i].data, c.buf.width, c.buf.height)

\* C2: every decodeFrames call ends either with a result and no error, or with
\* exactly one error and no result.
C2_AllOrNothing ==
    \A t \in Threads :
        LET c == call[t] IN
        (c.op = "decodeFrames" /\ Ended(t))
        => /\ c.done
           /\ \/ c.exc = <<>> /\ ~c.null
              \/ Len(c.exc) = 1 /\ c.null /\ c.result = <<>>

\* C3: decodeFrames with total greater than the number of packets the buffer
\* delivers (the buffer probeable, its packets decodable) raises the read
\* failure with the read code and returns no result.
C3_ShortInputRaisesDemuxFailure ==
    \A t \in Threads :
        LET c == call[t] IN
        (/\ Decoded(t)
         /\ Probeable(c.buf)
         /\ c.total0 > Len(c.buf.pkts)
         /\ AllDecodable(c.buf.pkts, Len(c.buf.pkts)))
        => c.done /\ c.null /\ c.result = <<>> /\ c.exc = <<DemuxFailure>>

\* C4: when a type-0 decodeFrames call is over, the format handle and the I/O
\* wrapper it opened have each been released exactly once, and the handle was
\* never used after its release.
C4_FormatHandleReleasedOnce ==
    \A t \in Threads :
        LET c == call[t] IN
        Decoded(t)
        => /\ c.fmt = "freed" /\ c.relFmt = 1
           /\ c.io = "freed" /\ c.relIo = 1
           /\ ~c.touched

InitFailed(t) ==
    call[t].op = "initContext" /\ call[t].type = 0 /\ call[t].done /\ call[t].null

\* C5: when initContext (type 0) fails, the I/O wrapper and the format handle
\* of its probe are released, one error is raised and the null handle returned.
C5_FailedInitReleasesProbe ==
    \A t \in Threads :
        LET c == call[t] IN
        InitFailed(t)
        => /\ c.io # "live" /\ c.fmt # "live"
           /\ Len(c.exc) = 1 /\ c.value = 0

\* C6: when initContext (type 0) fails, neither the context structure it
\* allocated nor the decoding context, if one was allocated, is still live.
C6_FailedInitLeavesNothing ==
    \A t \in Threads :
        LET c == call[t] IN
        InitFailed(t) => c.made.st # "live" /\ c.made.codec_context # "live"

Released(x) ==
    /\ x.st = "freed" /\ x.codec_context = "freed" /\ x.sws_context = "freed"
    /\ x.frame = "freed" /\ x.packet = "freed" /\ x.buffer = "freed"

\* C7: in a run of one successful initContext, any number of decodeFrames and
\* frames calls and one freeContext, once freeContext has returned the five
\* sub-resources and the structure are released and nothing that a call of the
\* run acquired is still live.
C7_NothingLiveAfterFree ==
    \A t \in Threads :
        LET c == call[t] IN
        (c.op = "freeContext" /\ c.type = 0 /\ c.done /\ failed = 0)
        => Released(ctx[c.h]) /\ live = NoLive

\* a step that is a whole call with a tag other than 0
UnsupportedStep(t) ==
    /\ call'[t] # call[t]
    /\ call'[t].type # 0
UnsupportedOutcome(c) ==
    /\ c.done
    /\ c.op \in {"initContext", "decodeFrames", "frames"}
           => c.exc = <<UnsupportedContext(c.type)>>
    /\ c.op = "initContext" => c.value = 0
    /\ c.op = "decodeFrames" => c.null /\ c.result = <<>>
    /\ c.op = "freeContext" => c.exc = <<>>

\* C8: a call with a tag other than 0 changes nothing but its own outcome:
\* initContext, decodeFrames and frames raise the unsupported-context error
\* (initContext returns the null handle, decodeFrames no result), freeContext
\* raises nothing; no context, no native object and no handle is touched.
C8_UnsupportedHasNoEffect ==
    [][\A t \in Threads :
           UnsupportedStep(t)
           => /\ ctx' = ctx /\ held' = held /\ live' = live /\ ub' = ub /\ pc' = pc
              /\ failed' = failed /\ overlapped' = overlapped
              /\ UnsupportedOutcome(call'[t])]_vars

\* a call with tag 1 is over while the caller holds a context
C8_Witness ==
    \E t \in Threads :
        /\ call[t].type # 0 /\ call[t].done
        /\ call[t].op = "decodeFrames"
        /\ held # {}

FramesCalled(t) == call[t].op = "frames" /\ call[t].type = 0 /\ call[t].done
\* the frame count the stream declared when the context was built
Declared(t) == ctx[call[t].h].frame_rate

\* C9: frames returns exactly the declared frame count F when F > 0 and raises
\* the unknown-frame-rate error when F = 0.
C9_FramesReturnsDeclared ==
    \A t \in Threads :
        LET c == call[t] IN
        FramesCalled(t)
        => /\ I64Positive(Declared(t)) => c.exc = <<>> /\ FromJint(c.value) = Declared(t)
           /\ Declared(t) = Zero64 => c.exc = <<UnknownFrameRate>>

\* C10: frames raises the unknown-frame-rate error whenever the declared frame
\* count is zero or negative, and every value it returns is strictly positive.
C10_FramesNeverNonPositive ==
    \A t \in Threads :
        LET c == call[t] IN
        FramesCalled(t)
        => /\ ~I64Positive(Declared(t)) => c.exc = <<UnknownFrameRate>>
           /\ c.exc = <<>> => c.value > 0

ZeroTotalCall(c) ==
    c.op = "decodeFrames" /\ c.type = 0 /\ c.total0 = 0 /\ Probeable(c.buf)
\* the engine calls that open and close the format handle of a call
ProbeCalls ==
    <<"avformat_open_input", "avformat_find_stream_info", "avio_context_free",
      "avformat_close_input">>

\* C11: decodeFrames (type 0) with total = 0 on a probeable buffer returns an
\* empty sequence and raises nothing; no step of the call reads a packet,
\* submits one, retrieves a frame or scales: the engine calls it makes are those
\* that open and close its own format handle, and the context stays as it was.
C11_ZeroTotalDecodesNothing ==
    [][\A t \in Threads :
           (call'[t] # call[t] /\ ZeroTotalCall(call'[t]))
           => LET c == call'[t] IN
              /\ ctx' = ctx
              /\ pc'[t] \in {"loop", "idle"}
              /\ c.pos = 0
              /\ c.log = IF c.done THEN ProbeCalls ELSE SubSeq(ProbeCalls, 1, 2)
              /\ c.done => c.exc = <<>> /\ ~c.null /\ c.result = <<>>]_vars

\* a call with total = 0 on a probeable buffer has returned
C11_Witness ==
    \E t \in Threads :
        /\ ZeroTotalCall(call[t]) /\ call[t].done
        /\ ctx[call[t].h].st = "live"
        /\ call[t].result = <<>> /\ call[t].exc = <<>>

\* C12: for a scratch buffer of width * height * 3 bytes the packed image has
\* exactly width * height entries, entry i is
\* byte[3i] * 2^16 + byte[3i+1] * 2^8 + byte[3i+2], and its bits 24..31 are zero;
\* the bytes 0x12, 0x34, 0x56 give 0x123456.
C12_PixelsPacked ==
    \A t \in Threads :
        LET c == call[t]
            b == ctx[c.h].scratch
        IN  (c.op = "decodeFrames" /\ c.type = 0 /\ Len(b) = c.width * c.height * 3)
            => \A k \in 1..Len(c.frames) :
                   LET px == c.frames[k].pixels IN
                   /\ Len(px) = c.width * c.height
                   /\ \A i \in 0..(c.width * c.height - 1) :
                          /\ px[i + 1] = b[3 * i + 1] * 65536 + b[3 * i + 2] * 256 + b[3 * i + 3]
                          /\ px[i + 1] >= 0 /\ px[i + 1] < 16777216
                   /\ b = <<18, 52, 86>> => px = <<1193046>>

\* the bytes 0x12, 0x34, 0x56 were packed into the one pixel of a returned image
C12_Witness ==
    \E t \in Threads :
        /\ call[t].done /\ Len(call[t].result) = 1
        /\ ctx[call[t].h].scratch = <<18, 52, 86>>
        /\ call[t].result[1].pixels = <<1193046>>

\* what one step of a type-0 decodeFrames call at position p may do to bundle s
\* (at "idle", s holds the arguments of the call that begins)
AsCrashed(s) == [s EXCEPT !.c.done = FALSE, !.c.exc = <<>>, !.c.null = FALSE]
Outcome(b, p) == [b |-> b, pc |-> p]
MayCrash(s, r) ==
    IF r.ub # s.ub
    THEN {Outcome([AsCrashed(r) EXCEPT !.c.fault = r.ub \ s.ub], "crashed")}
    ELSE {}
StepOutcomes(s, p) ==
    CASE p = "idle" ->
           LET r == DecodeEntry(s)
           IN  {Outcome(r, IF r.c.done THEN "idle" ELSE "loop")} \cup MayCrash(s, r)
      [] p = "loop" ->
           IF LoopCondition(s.c.total)
           THEN LET r == AvReadFrame(s)
                IN  IF r.rc # 0 THEN {Outcome(ReadFailed(r), "idle")}
                    ELSE {Outcome([r EXCEPT !.c.error_code = 0], "send")}
           ELSE {Outcome(ReturnFrames(s), "idle")}
      [] p = "send" ->
           LET r == AvcodecSendPacket(s)
           IN  {IF r.rc # 0 THEN Outcome(SendFailed(r), "idle") ELSE Outcome(r, "recv")}
      [] p = "recv" ->
           LET r == AvcodecReceiveFrame(s)
           IN  {IF r.rc # 0 THEN Outcome(ReceiveFailed(r), "idle") ELSE Outcome(r, "scale")}
      [] p = "scale" ->
           LET r == SwsScale(s) IN {Outcome(r, "pack")} \cup MayCrash(s, r)
      [] p = "pack" ->
           UNION {{Outcome(Pack(s, g), "loop")} \cup MayCrash(s, Pack(s, g)) :
                      g \in GarbageBytes}
      [] OTHER -> {}

\* thread t takes a step of a type-0 decodeFrames call
DecodeStep(t) ==
    call'[t] # call[t] /\ call'[t].op = "decodeFrames" /\ call'[t].type = 0
\* the call of thread t before the step, had its offset argument been o
WithOffset(t, o) ==
    IF pc[t] = "idle"
    THEN LET c == call'[t]
         IN  Bundle(DecodeCall(t, c.h, c.type, c.buf, o, c.total0), ctx[c.h])
    ELSE Bundle([call[t] EXCEPT !.offset = o], ctx[call[t].h])
NoOffset(c) == [c EXCEPT !.offset = 0]

C14_ScratchEntitiesEmptyAtReturn ==
    \A t \in Threads :
        LET c == call[t] IN
        (c.op = "decodeFrames" /\ c.type = 0 /\ (c.done \/ pc[t] = "loop"))
        => /\ ctx[c.h].pkt = NoData
           /\ ctx[c.h].frm = 0
           /\ live.pktdata = 0

\* C15: in every type-0 decodeFrames call the width and height used to scale
\* into pixelScratch and to pack its pixels are those fixed at construction, and
\* the width * height * 3 bytes written and read never exceed the allocated
\* size, whatever buffer the caller passes.
C15_ScratchNeverOverrun ==
    \A t \in Threads :
        LET c == call[t]
            x == ctx[c.h]
        IN  (c.op = "decodeFrames" /\ c.type = 0 /\ pc[t] \in {"scale", "pack"})
            => /\ c.width = x.sw /\ c.height = x.sh
               /\ c.width * c.height * 3 <= x.size
               /\ "oobwrite" \notin ub /\ "oobread" \notin ub

\* the code returned by the native step that failed when the call of record c
\* raised the error with message msg
FailedStepCode(c, msg) ==
    CASE msg = "Demuxing failed" ->
           IF ~c.buf.open THEN OpenInputErr ELSE StreamInfoErr
      [] msg = "Context initialization failed" ->
           IF c.buf.codec = "none" THEN NoDecoderErr
           ELSE IF c.buf.codec = "params" THEN ParamsErr ELSE Open2Err
      [] msg = "AVPacket initialization failed" -> ReadErr
      [] msg = "Decoding failed" ->
           IF c.buf.pkts[c.pos].fault = "send" THEN SendErr ELSE RecvErr
      [] OTHER -> 0
NativeFailures ==
    {"Demuxing failed", "Context initialization failed",
     "SWS context initialization failed", "AVPacket initialization failed",
     "Decoding failed"}

\* C16: every error that initContext or decodeFrames (type 0) raises for the
\* failure of a native step carries a code that is not 0 and is the code of the
\* step that failed, never the code left by an earlier, successful step; the
\* scaler construction returns no code, so there any code other than the 0 left
\* by the decoder set-up is accepted.
C16_ErrorCarriesFailingCode ==
    \A t \in Threads :
        LET c == call[t] IN
        (c.op \in {"initContext", "decodeFrames"} /\ c.type = 0)
        => \A i \in 1..Len(c.exc) :
               c.exc[i].msg \in NativeFailures
               => /\ c.exc[i].code # 0
                  /\ c.exc[i].msg # "SWS context initialization failed"
                         => c.exc[i].code = FailedStepCode(c, c.exc[i].msg)

\* thread t is about to submit, retrieve, scale or pack what a call of another
\* thread produced (its own packet, frame or pixels having been overwritten or
\* released by that call)
Mixed(t) ==
    LET by == ctx[call[t].h].by IN
    /\ call[t].op = "decodeFrames" /\ call[t].type = 0
    /\ \/ pc[t] = "send" /\ by.pkt # t
       \/ pc[t] = "recv" /\ by.pending # t
       \/ pc[t] = "scale" /\ by.frm # t
       \/ pc[t] = "pack" /\ by.scratch # t
\* image i of the result is the image of the i-th packet of the buffer
OwnImages(c) ==
    \A i \in 1..Len(c.result) :
        c.result[i] = Conversion(c.buf.pkts[i].data, c.buf.width, c.buf.height)

C18_EmptyOnlyForZeroTotal ==
    \A t \in Threads :
        LET c == call[t] IN
        (c.op = "decodeFrames" /\ c.type = 0 /\ c.done /\ c.exc = <<>> /\ c.result = <<>>)
        => c.total0 = 0

\* how many times the engine function f was entered
Entered(c, f) == Cardinality({i \in 1..Len(c.log) : c.log[i] = f})
InDecode(t) == call[t].op = "decodeFrames" /\ call[t].type = 0
\* total never grows and falls by one when an iteration completes
TotalDecreases(t) ==
    (InDecode(t) /\ pc[t] # "idle" /\ call'[t] # call[t])
    => /\ call'[t].total <= call[t].total
       /\ (pc[t] = "pack" /\ pc'[t] = "loop") => call'[t].total = call[t].total - 1
\* at most total reads, and nothing but the release of the handle after an error
BoundedReads(t) ==
    LET c == call[t] IN
    InDecode(t)
    => /\ c.total0 >= 0 => Entered(c, "av_read_frame") <= c.total0
       /\ c.exc # <<>> => c.done /\ pc[t] = "idle" /\ Len(c.exc) = 1

\* a codec-engine call (avio_context_free, sws_scale) did not return
EngineCallLost(t) ==
    pc[t] = "crashed" /\ call[t].fault \cap {"nullderef", "oobwrite"} # {}

\* the process does not end inside a call, in the code of the bridge itself
NeverAbandoned(t) == (InDecode(t) /\ pc[t] = "crashed") => EngineCallLost(t)

\* C19: every decodeFrames call terminates when each codec-engine call returns:
\* it makes at most total packet reads, total falls by one on each completed
\* iteration and never grows, nothing is retried after a failure, and the call
\* eventually returns its result or raises its one error.
C19_DecodeTerminates ==
    /\ [](\A t \in Threads : BoundedReads(t) /\ NeverAbandoned(t))
    /\ [][\A t \in Threads : TotalDecreases(t)]_vars
    /\ \A t \in Threads :
           InDecode(t) ~> (InDecode(t) /\ (call[t].done \/ EngineCallLost(t)))

====
